---- MODULE Spec2Model ----
(***************************************************************************)
(* Model of sdisk (src/sdisk/src/main.rs): the scan / rank / select /      *)
(* delete pipeline of the `top`, `stale` and `clean` commands.             *)
(*                                                                         *)
(* One behaviour is one run of the program.  Init draws the command line   *)
(* and the filesystem; the actions follow the control flow of main,        *)
(* cmd_top and cmd_stale, the operator's input (multi-select, confirmation *)
(* line) and the outcome of every removal being chosen by the environment. *)
(***************************************************************************)
EXTENDS Integers, Sequences, FiniteSets, TLC

(***************************************************************************)
(* Bounds of the model.                                                    *)
(***************************************************************************)
MaxSize == 1
MaxLimit == 3

(***************************************************************************)
(* Program constants.                                                      *)
(***************************************************************************)
TopMaxDepth == 3
SecsPerDay == 24 * 60 * 60
DefaultStaleDays == 90
\* WalkDir::new without max_depth walks the whole tree (usize::MAX); any
\* value not below the height of the modelled tree behaves the same.
UnboundedDepth == 64
\* u64::MAX and i64::MAX, with the 64-bit word scaled to 26 bits.
U64Max == 67108863
I64Max == 33554431

(***************************************************************************)
(* The filesystem: a fixed tree of paths, a path being the sequence of its *)
(* components.  r is a directory holding the file a and the directory d,   *)
(* which holds the file b.  Beneath d the chain of directories e and f     *)
(* leads to the file g, four levels below r.  s is a directory holding the *)
(* files A, B and C.  A run starts with some of these paths on disk.       *)
(***************************************************************************)
PathR == <<"r">>
PathA == <<"r", "a">>
PathD == <<"r", "d">>
PathB == <<"r", "d", "b">>
PathE == <<"r", "d", "e">>
PathF == <<"r", "d", "e", "f">>
PathG == <<"r", "d", "e", "f", "g">>
PathS == <<"s">>
PathSA == <<"s", "A">>
PathSB == <<"s", "B">>
PathSC == <<"s", "C">>
PathList == <<PathR, PathA, PathD, PathB, PathE, PathF, PathG,
              PathS, PathSA, PathSB, PathSC>>
AllPaths == {PathList[i] : i \in 1..Len(PathList)}
DirPaths == {PathR, PathD, PathE, PathF, PathS}
FilePaths == AllPaths \ DirPaths
BasePaths == {PathR, PathA, PathD, PathB}
Cwd == PathR

IsPrefix(p, q) == Len(p) <= Len(q) /\ SubSeq(q, 1, Len(p)) = p
IsChild(q, p) == Len(q) = Len(p) + 1 /\ IsPrefix(p, q)
Subtree(p) == {q \in AllPaths : IsPrefix(p, q)}

Min(a, b) == IF a <= b THEN a ELSE b
Reverse(s) == [i \in 1..Len(s) |-> s[Len(s) + 1 - i]]

\* Time: seconds since the epoch.  Now is the instant of the run.
Now == 200 * SecsPerDay
TimeVals == {Now - DefaultStaleDays * SecsPerDay, Now - 5 * SecsPerDay}
SizeVals == 0..MaxSize
DaysVals == {0, DefaultStaleDays}

(***************************************************************************)
(* The operator's input.  A line is a sequence of characters.              *)
(***************************************************************************)
ReadError == <<"<io error>">>
Lines == { <<"y", "\n">>, <<" ", "Y", "E", "S", " ", "\n">>, <<"\n">>, <<>>,
           <<"n", "\n">>, <<"y", "e", "\n">>, <<"y", "e", "s", "s", "\n">>,
           <<"n", "y", "\n">> }
NoPath == <<>>
ExtraVals == { <<>>, <<PathD>>, <<PathR, PathR>>, <<PathA, PathD>> }

VARIABLES
    command,      \* "top", "stale" or "clean"
    interactive,  \* !cli.non_interactive
    yes,          \* cli.yes
    dry_run,      \* cli.dry_run
    limit,        \* count (top) or limit (stale, clean)
    days,         \* cli.stale_days
    opt_root,     \* cli.path
    extra,        \* the positional paths
    readdirRev,   \* the order in which the filesystem lists a directory
    fsize,        \* length of every file
    atime,        \* last access time of every path
    unreadable,   \* files whose metadata and directories whose listing fail
    disk0,        \* the paths on disk when the run starts
    present,      \* the paths that exist on disk
    pc,           \* position in the run
    roots,        \* result of collect_roots
    cutoff,       \* cmd_stale's cutoff
    collected,    \* entries / items in walk order, before sorting
    entries,      \* the ranked, truncated entries / items
    selection,    \* indices into entries chosen for removal
    idx,          \* position of the removal loop in selection
    inputs,       \* what each prompt returned, in the order of prompts
    confirmedBy,  \* how the removal loop was entered
    prompts,      \* prompts issued so far
    out,          \* lines printed so far
    attempts,     \* paths handed to remove_file / remove_dir_all so far
    failed,       \* paths whose removal returned an error
    status        \* "running", "ok" (Ok(())) or "err" (Err)

vars == <<command, interactive, yes, dry_run, limit, days, opt_root, extra,
          readdirRev, fsize, atime, unreadable, disk0, present, pc, roots,
          cutoff, collected, entries,
          selection, idx, inputs, confirmedBy, prompts, out, attempts,
          failed, status>>

cliVars == <<command, interactive, yes, dry_run, limit, days, opt_root, extra>>
envVars == <<readdirRev, fsize, atime, unreadable, disk0>>

(***************************************************************************)
(* collect_roots: --path first, then every positional path not already in  *)
(* the list, the current directory when the list would be empty.           *)
(***************************************************************************)
Contains(s, x) == \E i \in 1..Len(s) : s[i] = x

RECURSIVE PushExtra(_, _)
PushExtra(rs, ex) ==
    IF ex = <<>> THEN rs
    ELSE IF ~Contains(rs, Head(ex))
         THEN PushExtra(Append(rs, Head(ex)), Tail(ex))
         ELSE PushExtra(rs, Tail(ex))

collect_roots(optRoot, ex) ==
    LET r0 == IF optRoot # NoPath THEN <<optRoot>> ELSE <<>>
        r1 == PushExtra(r0, ex)
    IN  IF r1 = <<>> THEN <<Cwd>> ELSE r1

(***************************************************************************)
(* The filesystem as the walk sees it.                                     *)
(***************************************************************************)
\* metadata(p) succeeds.
Readable(p) == p \in present /\ (p \in FilePaths => p \notin unreadable)

is_file(p) == Readable(p) /\ p \in FilePaths
is_dir(p) == p \in present /\ p \in DirPaths

\* read_dir of p: its children, in the order the filesystem lists them.
ReadDir(p) ==
    LET inOrder == SelectSeq(PathList, LAMBDA q : IsChild(q, p) /\ q \in present)
    IN  IF readdirRev THEN Reverse(inOrder) ELSE inOrder

RECURSIVE WalkDir(_, _)
RECURSIVE WalkChildren(_, _)
\* WalkDir::new(p).max_depth(d).into_iter().filter_map(|e| e.ok()): the
\* node itself, then (for a directory, while depth remains) its children's
\* walks; a path that does not exist and a directory that cannot be listed
\* yield an error, which is dropped.
WalkDir(p, d) ==
    IF p \notin present THEN <<>>
    ELSE IF p \in DirPaths /\ p \notin unreadable /\ d > 0
         THEN <<p>> \o WalkChildren(ReadDir(p), d - 1)
         ELSE <<p>>

WalkChildren(cs, d) ==
    IF cs = <<>> THEN <<>>
    ELSE WalkDir(Head(cs), d) \o WalkChildren(Tail(cs), d)

\* An addition that wraps at the width of the word.
wrapping_add(a, b) == (a + b) % (U64Max + 1)

saturating_add(a, b) == IF a + b > U64Max THEN U64Max ELSE a + b

RECURSIVE SumFiles(_, _)
SumFiles(ps, acc) ==
    IF ps = <<>> THEN acc
    ELSE IF is_file(Head(ps))
         THEN SumFiles(Tail(ps), saturating_add(acc, fsize[Head(ps)]))
         ELSE SumFiles(Tail(ps), acc)

dir_size(p) == SumFiles(WalkDir(p, UnboundedDepth), 0)

(***************************************************************************)
(* cutoff = SystemTime::now() - Duration::from_secs(days * 24 * 60 * 60).  *)
(* The product is a u64: when it overflows, a build with overflow checks   *)
(* panics and a build without them wraps.  The subtraction panics when     *)
(* the SystemTime cannot take the duration: always when the result lies    *)
(* below the smallest i64, and in the implementations that first convert   *)
(* the duration to i64, already when the duration lies above i64::MAX.     *)
(***************************************************************************)
Panic == [panic |-> TRUE, value |-> 0]
Value(v) == [panic |-> FALSE, value |-> v]

MulSecs(d) ==
    LET product == d * SecsPerDay
    IN  IF product <= U64Max THEN {Value(product)}
        ELSE {Panic, Value(product % (U64Max + 1))}

SubDuration(t, dur) ==
    IF t - dur < -(I64Max + 1) THEN {Panic}
    ELSE IF dur > I64Max THEN {Panic, Value(t - dur)}
    ELSE {Value(t - dur)}

Cutoff(d) ==
    UNION { IF m.panic THEN {Panic} ELSE SubDuration(Now, m.value) :
              m \in MulSecs(d) }

(***************************************************************************)
(* The walks of cmd_top and cmd_stale over one root and over all roots.    *)
(***************************************************************************)
TopEntry(p) == [path |-> p, size |-> fsize[p]]

RECURSIVE TopCollect(_)
TopCollect(ps) ==
    IF ps = <<>> THEN <<>>
    ELSE IF is_file(Head(ps))
         THEN <<TopEntry(Head(ps))>> \o TopCollect(Tail(ps))
         ELSE TopCollect(Tail(ps))

RECURSIVE TopScan(_)
TopScan(rs) ==
    IF rs = <<>> THEN <<>>
    ELSE TopCollect(WalkDir(Head(rs), TopMaxDepth)) \o TopScan(Tail(rs))

StaleEntry(p) ==
    [path |-> p,
     size |-> IF is_file(p) THEN fsize[p] ELSE dir_size(p),
     time |-> atime[p]]

RECURSIVE StaleCollect_Strict(_, _)
\* A filter that leaves out the entries last used exactly at the cutoff.
StaleCollect_Strict(ps, co) ==
    IF ps = <<>> THEN <<>>
    ELSE IF Readable(Head(ps)) /\ atime[Head(ps)] < co
         THEN <<StaleEntry(Head(ps))>> \o StaleCollect_Strict(Tail(ps), co)
         ELSE StaleCollect_Strict(Tail(ps), co)

RECURSIVE StaleCollect(_, _)
StaleCollect(ps, co) ==
    IF ps = <<>> THEN <<>>
    ELSE IF Readable(Head(ps)) /\ atime[Head(ps)] <= co
         THEN <<StaleEntry(Head(ps))>> \o StaleCollect(Tail(ps), co)
         ELSE StaleCollect(Tail(ps), co)

RECURSIVE StaleScan(_, _)
StaleScan(rs, co) ==
    IF rs = <<>> THEN <<>>
    ELSE StaleCollect(WalkDir(Head(rs), UnboundedDepth), co)
         \o StaleScan(Tail(rs), co)

(***************************************************************************)
(* Ranking: sort_by_key(Reverse(size)) is a stable sort, largest first;    *)
(* into_iter().take(n) keeps the first n elements.                         *)
(***************************************************************************)
RECURSIVE InsertBySize_Ascending(_, _)
\* An insertion that sorts by size without the Reverse: smallest first.
InsertBySize_Ascending(s, e) ==
    IF s = <<>> THEN <<e>>
    ELSE IF Head(s).size <= e.size
         THEN <<Head(s)>> \o InsertBySize_Ascending(Tail(s), e)
         ELSE <<e>> \o s

RECURSIVE InsertBySize_Unstable(_, _)
\* An insertion that puts e ahead of the elements equal to it.
InsertBySize_Unstable(s, e) ==
    IF s = <<>> THEN <<e>>
    ELSE IF Head(s).size > e.size
         THEN <<Head(s)>> \o InsertBySize_Unstable(Tail(s), e)
         ELSE <<e>> \o s

RECURSIVE InsertBySize(_, _)
\* e goes behind every element that is not smaller than it.
InsertBySize(s, e) ==
    IF s = <<>> THEN <<e>>
    ELSE IF Head(s).size >= e.size
         THEN <<Head(s)>> \o InsertBySize(Tail(s), e)
         ELSE <<e>> \o s

RECURSIVE sort_by_size_desc(_)
sort_by_size_desc(s) ==
    IF s = <<>> THEN <<>>
    ELSE InsertBySize(sort_by_size_desc(SubSeq(s, 1, Len(s) - 1)), s[Len(s)])

RECURSIVE take_OffByOne(_, _)
\* A take whose bound is exclusive.
take_OffByOne(s, n) ==
    IF n <= 1 \/ s = <<>> THEN <<>>
    ELSE <<Head(s)>> \o take_OffByOne(Tail(s), n - 1)

RECURSIVE take(_, _)
take(s, n) ==
    IF n = 0 \/ s = <<>> THEN <<>>
    ELSE <<Head(s)>> \o take(Tail(s), n - 1)

Rank(s, n) == take(sort_by_size_desc(s), n)

(***************************************************************************)
(* confirm: the line is trimmed and lower-cased; "y" and "yes" accept.     *)
(***************************************************************************)
IsWhitespace(c) == c \in {" ", "\n", "\t", "\r"}

to_lowercase_char(c) ==
    CASE c = "Y" -> "y"
      [] c = "E" -> "e"
      [] c = "S" -> "s"
      [] c = "N" -> "n"
      [] OTHER -> c

to_lowercase(s) == [i \in 1..Len(s) |-> to_lowercase_char(s[i])]

RECURSIVE TrimStart(_)
TrimStart(s) ==
    IF s # <<>> /\ IsWhitespace(Head(s)) THEN TrimStart(Tail(s)) ELSE s

RECURSIVE TrimEnd(_)
TrimEnd(s) ==
    IF s # <<>> /\ IsWhitespace(s[Len(s)])
    THEN TrimEnd(SubSeq(s, 1, Len(s) - 1)) ELSE s

trim(s) == TrimEnd(TrimStart(s))

\* An answer check that only looks at the first letter.
Accepts_FirstLetter(line) ==
    LET trimmed == to_lowercase(trim(line))
    IN  trimmed # <<>> /\ trimmed[1] = "y"

Accepts(line) ==
    LET trimmed == to_lowercase(trim(line))
    IN  trimmed = <<"y">> \/ trimmed = <<"y", "e", "s">>

\* The indices a multi-select returns: the checked items, in list order.
RECURSIVE IndexSeq(_)
IndexSeq(S) ==
    IF S = {} THEN <<>>
    ELSE LET m == CHOOSE x \in S : \A y \in S : x <= y
         IN  <<m>> \o IndexSeq(S \ {m})

Line(kind, p) == [kind |-> kind, path |-> p]

RECURSIVE Listing(_)
Listing(es) ==
    IF es = <<>> THEN <<>>
    ELSE <<Line("item", Head(es).path)>> \o Listing(Tail(es))

RECURSIVE WouldRemoveLines(_, _)
WouldRemoveLines(es, sel) ==
    IF sel = <<>> THEN <<>>
    ELSE <<Line("- ", es[Head(sel)].path)>> \o WouldRemoveLines(es, Tail(sel))


(***************************************************************************)
(* Removal.  remove_file unlinks one file; remove_dir_all removes a        *)
(* directory with everything beneath it.  Either may be refused by the     *)
(* filesystem; a refused remove_dir_all may already have removed part of   *)
(* the directory's contents.  A path that no longer exists is not a file,  *)
(* so it goes to remove_dir_all, which fails.                              *)
(***************************************************************************)
DownClosed(S) == \A q \in S : (Subtree(q) \cap present) \subseteq S

remove_file(p) ==
    { [ok |-> TRUE, gone |-> {p}], [ok |-> FALSE, gone |-> {}] }

remove_dir_all(p) ==
    IF p \notin present THEN { [ok |-> FALSE, gone |-> {}] }
    ELSE { [ok |-> TRUE, gone |-> Subtree(p) \cap present] }
         \cup { [ok |-> FALSE, gone |-> S] :
                  S \in {T \in SUBSET ((Subtree(p) \ {p}) \cap present) :
                           DownClosed(T)} }

RemoveOutcomes(p) == IF is_file(p) THEN remove_file(p) ELSE remove_dir_all(p)

(***************************************************************************)
(* Initial state: the command line and the filesystem of one run.          *)
(***************************************************************************)
CliPaths == { <<NoPath, <<>>>>, <<PathR, <<PathR, PathD>>>>, <<NoPath, <<PathA, PathD>>>> }

Init ==
    /\ command \in {"top", "stale", "clean"}
    /\ interactive \in BOOLEAN
    /\ yes \in BOOLEAN
    /\ dry_run \in BOOLEAN
    /\ limit \in 0..MaxLimit
    /\ days \in IF command = "top" THEN {DefaultStaleDays} ELSE DaysVals
    /\ \E cp \in CliPaths : opt_root = cp[1] /\ extra = cp[2]
    /\ readdirRev \in BOOLEAN
    /\ \E f \in [BasePaths \cap FilePaths -> SizeVals] :
          fsize = [p \in FilePaths |-> IF p \in BasePaths THEN f[p] ELSE 0]
    \* cmd_top never reads a time: one assignment of times stands for all.
    /\ \E t \in IF command = "top" THEN {[p \in BasePaths |-> Now]}
                 ELSE [BasePaths -> TimeVals] :
          atime = [p \in AllPaths |-> IF p \in BasePaths THEN t[p] ELSE Now]
    /\ unreadable = {}
    /\ disk0 = BasePaths
    /\ present = BasePaths
    /\ cutoff = 0
    /\ pc = "main"
    /\ roots = <<>>
    /\ collected = <<>>
    /\ entries = <<>>
    /\ selection = <<>>
    /\ idx = 1
    /\ inputs = <<>>
    /\ confirmedBy = "none"
    /\ prompts = <<>>
    /\ out = <<>>
    /\ attempts = <<>>
    /\ failed = <<>>
    /\ status = "running"

Finish(st) == pc' = "done" /\ status' = st

(***************************************************************************)
(* main: collect the roots and dispatch on the command.                    *)
(***************************************************************************)
Main ==
    /\ pc = "main"
    /\ roots' = collect_roots(opt_root, extra)
    /\ pc' = "scan"
    /\ UNCHANGED <<cutoff, cliVars, envVars, present, collected, entries, selection,
                   idx, inputs, confirmedBy, prompts, out, attempts, failed,
                   status>>

(***************************************************************************)
(* cmd_top, up to the listing.                                             *)
(***************************************************************************)
TopList ==
    /\ pc = "scan"
    /\ command = "top"
    /\ collected' = TopScan(roots)
    /\ entries' = Rank(collected', limit)
    /\ out' = out \o Listing(entries')
    /\ pc' = "listed"
    /\ UNCHANGED <<cutoff, cliVars, envVars, present, roots, selection, idx, inputs,
                   confirmedBy, prompts, attempts, failed, status>>

(***************************************************************************)
(* cmd_stale, up to the listing.                                           *)
(***************************************************************************)
StaleList ==
    /\ pc = "scan"
    /\ command \in {"stale", "clean"}
    /\ \E co \in Cutoff(days) :
          IF co.panic
          THEN /\ Finish("panic")
               /\ UNCHANGED <<cutoff, collected, entries, out>>
          ELSE /\ cutoff' = co.value
               /\ collected' = StaleScan(roots, co.value)
               /\ entries' = Rank(collected', limit)
               /\ out' = out \o Listing(entries')
               /\ pc' = "listed"
               /\ UNCHANGED status
    /\ UNCHANGED <<cliVars, envVars, present, roots, selection, idx, inputs,
                   confirmedBy, prompts, attempts, failed>>

\* The offer made in non-interactive runs too.
TopOffersDelete_IgnoresMode == entries # <<>>

\* The offer without its test for an empty listing.
TopOffersDelete_Always == interactive

\* cmd_top: `if interactive && !entries.is_empty()`.
TopOffersDelete == interactive /\ entries # <<>>

\* cmd_top after the listing: the multi-select is offered, or the run ends.
TopListed ==
    /\ pc = "listed"
    /\ command = "top"
    /\ IF TopOffersDelete
       THEN /\ prompts' = Append(prompts, "multiselect")
            /\ pc' = "select"
            /\ UNCHANGED status
       ELSE /\ Finish("ok")
            /\ UNCHANGED prompts
    /\ UNCHANGED <<cutoff, cliVars, envVars, present, roots, collected, entries,
                   selection, idx, inputs, confirmedBy, out, attempts, failed>>

\* The early exit without its dry-run test.
StaleEarlyExit_NoDryRun == entries = <<>>

\* cmd_stale: `if dry_run || items.is_empty() { return Ok(()) }`.
StaleEarlyExit == dry_run \/ entries = <<>>

\* The prompt flag passed as cli.yes instead of !cli.yes.
StaleNeedsConfirm_Inverted == yes

\* cmd_stale: `prompt && !confirm(..)`, prompt being !cli.yes.
StaleNeedsConfirm == ~yes

\* cmd_stale after the listing.
StaleListed ==
    /\ pc = "listed"
    /\ command \in {"stale", "clean"}
    /\ IF StaleEarlyExit
       THEN /\ Finish("ok")
            /\ UNCHANGED <<prompts, selection, confirmedBy>>
       ELSE IF interactive
       THEN /\ prompts' = Append(prompts, "multiselect")
            /\ pc' = "select"
            /\ UNCHANGED <<status, selection, confirmedBy>>
       ELSE IF StaleNeedsConfirm
       THEN /\ prompts' = Append(prompts, "confirm")
            /\ pc' = "confirm"
            /\ UNCHANGED <<status, selection, confirmedBy>>
       ELSE \* `for (path, _, _) in items`
            /\ selection' = [i \in 1..Len(entries) |-> i]
            /\ confirmedBy' = "yes_flag"
            /\ pc' = "removing"
            /\ UNCHANGED <<status, prompts>>
    /\ UNCHANGED <<cutoff, cliVars, envVars, present, roots, collected, entries,
                   idx, inputs, out, attempts, failed>>


(***************************************************************************)
(* The multi-select.  interact() returns the checked indices or an error.  *)
(***************************************************************************)
InteractError == <<-1>>
InteractResults == {InteractError} \cup {IndexSeq(S) : S \in SUBSET (1..Len(entries))}

WouldRemove(sel) == <<Line("Would remove:", <<>>)>> \o WouldRemoveLines(entries, sel)

\* The branches of cmd_top with the confirmation ahead of the dry-run test.
TopSelectBranch_ConfirmFirst(sel) ==
    IF sel = <<>> THEN "empty"
    ELSE IF ~yes THEN "confirm"
    ELSE IF dry_run THEN "would_remove"
    ELSE "remove"

\* cmd_top after interact(): nothing selected, dry run, confirmation
\* (`!yes && !confirm(..)`), or straight to the removal loop.
TopSelectBranch(sel) ==
    IF sel = <<>> THEN "empty"
    ELSE IF dry_run THEN "would_remove"
    ELSE IF ~yes THEN "confirm"
    ELSE "remove"

\* cmd_stale after interact(): nothing selected, dry run, or confirmation.
StaleSelectBranch(sel) ==
    IF sel = <<>> THEN "empty"
    ELSE IF dry_run THEN "would_remove"
    ELSE "confirm"

\* What follows interact() in both commands.
AfterInteract(res, branch) ==
    /\ inputs' = Append(inputs, res)
    /\ IF res = InteractError
       THEN /\ Finish("err")
            /\ UNCHANGED <<selection, out, prompts, confirmedBy>>
       ELSE /\ selection' = res
            /\ CASE branch = "empty" ->
                      /\ Finish("ok")
                      /\ UNCHANGED <<out, prompts, confirmedBy>>
                 [] branch = "would_remove" ->
                      /\ out' = out \o WouldRemove(res)
                      /\ Finish("ok")
                      /\ UNCHANGED <<prompts, confirmedBy>>
                 [] branch = "confirm" ->
                      /\ prompts' = Append(prompts, "confirm")
                      /\ pc' = "confirm"
                      /\ UNCHANGED <<out, status, confirmedBy>>
                 [] branch = "remove" ->
                      /\ confirmedBy' = "yes_flag"
                      /\ pc' = "removing"
                      /\ UNCHANGED <<out, status, prompts>>

\* cmd_top from the multi-select to the confirmation or the removal loop.
TopSelect ==
    /\ pc = "select"
    /\ command = "top"
    /\ \E res \in InteractResults : AfterInteract(res, TopSelectBranch(res))
    /\ UNCHANGED <<cutoff, cliVars, envVars, present, roots, collected, entries, idx,
                   attempts, failed>>

\* cmd_stale from the multi-select to the confirmation.
StaleSelect ==
    /\ pc = "select"
    /\ command \in {"stale", "clean"}
    /\ \E res \in InteractResults : AfterInteract(res, StaleSelectBranch(res))
    /\ UNCHANGED <<cutoff, cliVars, envVars, present, roots, collected, entries, idx,
                   attempts, failed>>

(***************************************************************************)
(* confirm: read_line returns a line or an error.                          *)
(***************************************************************************)
ReadResults == {ReadError} \cup Lines

\* A confirm that takes a failed read for an empty line.
confirm_SwallowsError(line) ==
    IF line # ReadError /\ Accepts(line) THEN "true" ELSE "false"

\* confirm's Result<bool> for what read_line returned.
confirm(line) ==
    IF line = ReadError THEN "err"
    ELSE IF Accepts(line) THEN "true"
    ELSE "false"

\* The part of a command that follows the call of confirm.
AfterConfirm(sel) ==
    \E line \in ReadResults :
        /\ inputs' = Append(inputs, line)
        /\ IF confirm(line) = "err"
           THEN /\ Finish("err")
                /\ UNCHANGED <<out, selection, confirmedBy>>
           ELSE IF confirm(line) = "false"
           THEN /\ out' = Append(out, Line("Aborted.", <<>>))
                /\ Finish("ok")
                /\ UNCHANGED <<selection, confirmedBy>>
           ELSE /\ selection' = sel
                /\ confirmedBy' = "answer"
                /\ pc' = "removing"
                /\ UNCHANGED <<out, status>>

TopConfirm ==
    /\ pc = "confirm"
    /\ command = "top"
    /\ AfterConfirm(selection)
    /\ UNCHANGED <<cutoff, cliVars, envVars, present, roots, collected, entries, idx,
                   prompts, attempts, failed>>

\* Both calls of confirm in cmd_stale: after the multi-select the selection
\* is removed, in a non-interactive run every listed item.
StaleConfirm ==
    /\ pc = "confirm"
    /\ command \in {"stale", "clean"}
    /\ AfterConfirm(IF interactive THEN selection
                    ELSE [i \in 1..Len(entries) |-> i])
    /\ UNCHANGED <<cutoff, cliVars, envVars, present, roots, collected, entries, idx,
                   prompts, attempts, failed>>

(***************************************************************************)
(* The removal loops.  One step is one iteration; `?` ends the command at  *)
(* the first removal that returns an error.                                *)
(***************************************************************************)
RemoveLoop ==
    IF idx > Len(selection)
    THEN /\ Finish("ok")
         /\ UNCHANGED <<present, idx, out, attempts, failed>>
    ELSE LET path == entries[selection[idx]].path
         IN  \E o \in RemoveOutcomes(path) :
                /\ attempts' = Append(attempts, path)
                /\ present' = present \ o.gone
                /\ IF o.ok
                   THEN /\ out' = Append(out, Line("Removed", path))
                        /\ idx' = idx + 1
                        /\ UNCHANGED <<pc, status, failed>>
                   ELSE /\ failed' = Append(failed, path)
                        /\ Finish("err")
                        /\ UNCHANGED <<idx, out>>

TopRemove ==
    /\ pc = "removing"
    /\ command = "top"
    /\ RemoveLoop
    /\ UNCHANGED <<cutoff, cliVars, envVars, roots, collected, entries, selection,
                   inputs, confirmedBy, prompts>>

StaleRemoveSelected ==
    /\ pc = "removing"
    /\ command \in {"stale", "clean"}
    /\ interactive
    /\ RemoveLoop
    /\ UNCHANGED <<cutoff, cliVars, envVars, roots, collected, entries, selection,
                   inputs, confirmedBy, prompts>>

StaleRemoveAll ==
    /\ pc = "removing"
    /\ command \in {"stale", "clean"}
    /\ ~interactive
    /\ RemoveLoop
    /\ UNCHANGED <<cutoff, cliVars, envVars, roots, collected, entries, selection,
                   inputs, confirmedBy, prompts>>

Next ==
    \/ Main
    \/ TopList
    \/ StaleList
    \/ TopListed
    \/ StaleListed
    \/ TopSelect
    \/ StaleSelect
    \/ TopConfirm
    \/ StaleConfirm
    \/ TopRemove
    \/ StaleRemoveSelected
    \/ StaleRemoveAll

Spec == Init /\ [][Next]_vars

(***************************************************************************)
(* The scan phase on its own, over the whole tree of paths: files of any   *)
(* size, unreadable paths, any number of stale days, and the directory s   *)
(* with A of 500 bytes, B of 10 MiB and C of 1 KiB.                        *)
(***************************************************************************)
PathMissing == <<"m">>
ScanCliPaths == { <<NoPath, <<>>>>, <<PathS, <<>>>>, <<PathR, <<PathD>>>>,
                  <<NoPath, <<PathA, PathMissing>>>>, <<PathD, <<PathD, PathR>>>> }
ScanLimits == {2, Len(PathList)}
ScanDays == {0, DefaultStaleDays, 400, 600, 777}
ScanSizes == {0, 1, U64Max - 1, U64Max}
ScanTimes == {Now - 100 * SecsPerDay, Now - DefaultStaleDays * SecsPerDay,
              Now - 5 * SecsPerDay}
ScanUnreadable == { {}, {PathA}, {PathD}, {PathG} }

FixedSizes ==
    [p \in FilePaths |->
        CASE p = PathSA -> 500
          [] p = PathSB -> 10 * 1024 * 1024
          [] p = PathSC -> 1024
          [] OTHER -> 1]

FixedTimes ==
    [p \in AllPaths |->
        CASE p = PathSA -> Now
          [] p = PathSB -> Now - 200 * SecsPerDay
          [] p \in {PathSC, PathF, PathD} -> Now - 5 * SecsPerDay
          [] p = PathE -> Now - DefaultStaleDays * SecsPerDay
          [] OTHER -> Now - 100 * SecsPerDay]

InitScan ==
    /\ command \in {"top", "stale", "clean"}
    /\ interactive = FALSE
    /\ yes = FALSE
    /\ dry_run = TRUE
    /\ limit \in ScanLimits
    /\ days \in IF command = "top" THEN {DefaultStaleDays} ELSE ScanDays
    /\ \E cp \in ScanCliPaths : opt_root = cp[1] /\ extra = cp[2]
    /\ readdirRev \in BOOLEAN
    /\ \E f \in [{PathA, PathB} -> ScanSizes] :
          fsize = [p \in FilePaths |->
                     IF p \in DOMAIN f THEN f[p] ELSE FixedSizes[p]]
    /\ \E t \in IF command = "top" THEN {[p \in {PathA, PathB} |-> Now]}
                 ELSE [{PathA, PathB} -> ScanTimes] :
          atime = [p \in AllPaths |->
                     IF p \in DOMAIN t THEN t[p] ELSE FixedTimes[p]]
    /\ unreadable \in ScanUnreadable
    /\ disk0 = AllPaths
    /\ present = AllPaths
    /\ cutoff = 0
    /\ pc = "main"
    /\ roots = <<>>
    /\ collected = <<>>
    /\ entries = <<>>
    /\ selection = <<>>
    /\ idx = 1
    /\ inputs = <<>>
    /\ confirmedBy = "none"
    /\ prompts = <<>>
    /\ out = <<>>
    /\ attempts = <<>>
    /\ failed = <<>>
    /\ status = "running"

NextScan ==
    \/ Main
    \/ TopList
    \/ StaleList

SpecScan == InitScan /\ [][NextScan]_vars

TypeOK ==
    /\ pc \in {"main", "scan", "listed", "select", "confirm", "removing", "done"}
    /\ status \in {"running", "ok", "err", "panic"}
    /\ (pc = "done") <=> (status # "running")
    /\ present \subseteq AllPaths
    /\ Len(entries) <= limit

(***************************************************************************)
(* Properties.                                                             *)
(***************************************************************************)
NothingRemoved == present = disk0 /\ attempts = <<>>
Printed(kind) == \E i \in 1..Len(out) : out[i].kind = kind
PrintedLine(kind, p) == \E i \in 1..Len(out) : out[i] = Line(kind, p)
Prompted(kind) == Contains(prompts, kind)
\* The prompt of the given kind has been issued and has returned res.
Returned(kind, res) ==
    \E i \in 1..Len(inputs) : prompts[i] = kind /\ inputs[i] = res
AcceptingLines == { <<"y", "\n">>, <<" ", "Y", "E", "S", " ", "\n">> }
RefusingLines == Lines \ AcceptingLines

\* C1: in a run with dry_run set nothing is ever removed and no removal is
\* attempted, whatever the command, the mode, the yes flag, the selection
\* and the confirmation answer are.
C1_DryRunNeverMutates == dry_run => NothingRemoved

\* A dry run of interactive top with --yes in which the operator selected
\* entries has ended.
C1_Witness ==
    /\ dry_run /\ yes /\ interactive /\ command = "top"
    /\ pc = "done" /\ entries # <<>> /\ selection # <<>>

\* C2: once the confirmation prompt has returned a line that is neither
\* "y" nor "yes" after trimming and lower-casing (blank and empty input
\* included), the command has ended successfully with "Aborted." as its last
\* line and nothing has been removed.
C2_RefusalIsSafe ==
    (\E l \in RefusingLines : Returned("confirm", l))
        => /\ pc = "done" /\ status = "ok"
           /\ out # <<>> /\ out[Len(out)] = Line("Aborted.", <<>>)
           /\ NothingRemoved

\* The operator answered "yess" to the confirmation of a non-empty selection.
C2_Witness ==
    /\ Returned("confirm", <<"y", "e", "s", "s", "\n">>)
    /\ entries # <<>> /\ pc = "done"

\* C3: when a removal batch has ended, every selected entry has been
\* attempted, also those behind a failed removal, each success has been
\* reported, and the status is failure iff some removal failed.
C3_PartialFailureIsolation ==
    (pc = "done" /\ confirmedBy # "none")
        => /\ Len(attempts) = Len(selection)
           /\ \A i \in 1..Len(selection) :
                 LET p == entries[selection[i]].path
                 IN  Contains(failed, p) \/ PrintedLine("Removed", p)
           /\ (status = "err") <=> (failed # <<>>)

\* C4: a removal is attempted only after a y/yes answer to the confirmation
\* prompt or in a non-interactive run with the yes flag; an interactive run
\* in its removal loop has issued the confirmation prompt.
C4_ConfirmedOnly ==
    (pc = "removing" \/ attempts # <<>>)
        => /\ \/ \E l \in AcceptingLines : Returned("confirm", l)
              \/ (~interactive /\ yes)
           /\ interactive => Prompted("confirm")

\* C5 as stated: with dry_run set no prompt is ever issued.
C5_DryRunNeverPrompts == dry_run => prompts = <<>>

\* C5: with dry_run set the confirmation prompt is never issued; stale and
\* clean issue no prompt at all, and the only prompt of top is the
\* multi-select of an interactive run with a non-empty listing.
C5_DryRunNeverConfirms ==
    dry_run =>
        /\ ~Prompted("confirm")
        /\ command # "top" => prompts = <<>>
        /\ prompts # <<>> =>
              prompts = <<"multiselect">> /\ interactive /\ entries # <<>>

\* A dry run of interactive top without --yes whose operator selected
\* entries has ended with the report.
C5_Witness ==
    /\ dry_run /\ ~yes /\ interactive /\ command = "top"
    /\ pc = "done" /\ selection # <<>> /\ Printed("Would remove:")

\* C6: a dry run of stale or clean over a non-empty listing has, when it
\* ends, printed "Would remove:" and one line for every candidate path.
C6_DryRunReports ==
    (command \in {"stale", "clean"} /\ dry_run /\ pc = "done" /\ entries # <<>>)
        => /\ Printed("Would remove:")
           /\ \A i \in 1..Len(entries) : PrintedLine("- ", entries[i].path)

AllIndices == [i \in 1..Len(entries) |-> i]
ListedPaths == [i \in 1..Len(entries) |-> entries[i].path]

\* C7: in a non-interactive run of stale or clean without dry_run over a
\* non-empty listing there is no multi-select and the selection is the whole
\* truncated listing.  With yes no prompt is issued and a batch that ends
\* without error has attempted every listed path in order; without yes
\* exactly one confirmation prompt is issued, and it has returned before any
\* removal.
C7_NonInteractiveSelection ==
    (/\ command \in {"stale", "clean"} /\ ~interactive /\ ~dry_run
     /\ entries # <<>> /\ pc \in {"confirm", "removing", "done"})
        => /\ ~Prompted("multiselect")
           /\ Len(entries) = Min(limit, Len(collected))
           /\ yes => /\ prompts = <<>>
                     /\ selection = AllIndices
                     /\ (pc = "done" /\ status = "ok") => attempts = ListedPaths
           /\ ~yes => /\ prompts = <<"confirm">>
                      /\ (pc = "removing" \/ attempts # <<>>)
                            => selection = AllIndices /\ Len(inputs) = 1
                      /\ (pc = "done" /\ status = "ok" /\ confirmedBy = "answer")
                            => attempts = ListedPaths

\* clean --non-interactive --yes has removed a listing of two or more items
\* that the limit had truncated.
C7_Witness ==
    /\ command = "clean" /\ ~interactive /\ yes /\ ~dry_run
    /\ pc = "done" /\ status = "ok"
    /\ Len(entries) >= 2 /\ Len(collected) > limit

\* C8: with an empty listing no prompt is issued, nothing is removed, no
\* abort is reported and the command ends successfully; when the operator
\* checks nothing in the multi-select the command has ended successfully
\* with no confirmation prompt, no removal and no abort reported.
C8_EmptyExit ==
    /\ (pc \notin {"main", "scan"} /\ entries = <<>>)
          => /\ prompts = <<>> /\ NothingRemoved /\ ~Printed("Aborted.")
             /\ pc \in {"listed", "done"}
             /\ pc = "done" => status = "ok"
    /\ Returned("multiselect", <<>>)
          => /\ pc = "done" /\ status = "ok"
             /\ ~Prompted("confirm") /\ NothingRemoved /\ ~Printed("Aborted.")

\* The operator of an interactive run without dry_run and yes left every
\* item of a non-empty listing unchecked.
C8_Witness ==
    /\ Returned("multiselect", <<>>) /\ entries # <<>>
    /\ ~dry_run /\ ~yes /\ pc = "done"

\* C9: ranking with limit = len(R) gives a sequence sorted non-increasing by
\* size that is a permutation of R in which entries of equal size keep their
\* walk order.
C9_RankingTotalOrder ==
    (pc = "listed" /\ limit = Len(collected))
        => LET n == Len(collected)
           IN  /\ Len(entries) = n
               /\ \A i, j \in 1..n : i < j => entries[i].size >= entries[j].size
               /\ \E f \in [1..n -> 1..n] :
                     /\ \A i, j \in 1..n : i # j => f[i] # f[j]
                     /\ \A i \in 1..n : entries[i] = collected[f[i]]
                     /\ \A i, j \in 1..n :
                           (i < j /\ entries[i].size = entries[j].size)
                              => f[i] < f[j]

\* Three entries were ranked with limit 3: the sort moved a larger entry
\* ahead, and two different paths tie.
C9_Witness ==
    /\ pc = "listed" /\ limit = Len(collected) /\ limit = 3
    /\ entries # collected
    /\ \E i, j \in 1..3 : /\ i < j
                          /\ entries[i].size = entries[j].size
                          /\ entries[i].path # entries[j].path

\* C10: the listing has length min(k, len(R)) and is that prefix of the full
\* ranking; the ranking raises no error.
C10_LimitBound ==
    pc = "listed"
        => LET m == Min(limit, Len(collected))
           IN  /\ Len(entries) = m
               /\ entries = SubSeq(sort_by_size_desc(collected), 1, m)
               /\ limit = 0 => entries = <<>>
               /\ limit > Len(collected) => Len(entries) = Len(collected)
               /\ status = "running"

\* A limit above the number of collected entries, two or more of them.
C10_Witness ==
    /\ pc = "listed" /\ limit > Len(collected) /\ Len(collected) >= 2
    /\ Len(entries) = Len(collected)

(***************************************************************************)
(* What a walk from the roots can see: a path on disk whose metadata can   *)
(* be read and that lies beneath a root with every directory between the   *)
(* root and the path listable.                                             *)
(***************************************************************************)
Depth(root, p) == Len(p) - Len(root)
VisibleFrom(root, p) ==
    /\ IsPrefix(root, p)
    /\ Readable(p)
    /\ \A q \in AllPaths :
          (IsPrefix(root, q) /\ IsPrefix(q, p) /\ q # p)
             => (q \in present /\ q \notin unreadable)
Visible(p) == \E i \in 1..Len(roots) : VisibleFrom(roots[i], p)
PathsOf(es) == {es[i].path : i \in 1..Len(es)}

\* C11: before truncation the candidates of stale and clean are exactly the
\* walked entries whose last use is not later than the cutoff, an entry
\* last used at the cutoff included; whatever is used no later than a
\* candidate is a candidate too.
C11_StaleClassification ==
    (pc = "listed" /\ command \in {"stale", "clean"})
        => /\ PathsOf(collected) = {p \in AllPaths : Visible(p) /\ atime[p] <= cutoff}
           /\ \A i \in 1..Len(collected) :
                 collected[i].time = atime[collected[i].path]
           /\ \A p1, p2 \in AllPaths :
                 (/\ Visible(p1) /\ Visible(p2) /\ atime[p1] <= atime[p2]
                  /\ p2 \in PathsOf(collected))
                    => p1 \in PathsOf(collected)

\* A scan with the default 90 days has kept an entry last used exactly at
\* the cutoff and has left out a more recent one.
C11_Witness ==
    /\ pc = "listed" /\ command = "stale" /\ days = DefaultStaleDays
    /\ \E i \in 1..Len(collected) : collected[i].time = cutoff
    /\ \E p \in AllPaths : Visible(p) /\ p \notin PathsOf(collected)

\* top --count 2 over the root s, which holds A of 500 bytes, B of 10 MiB
\* and C of 1 KiB, has printed its listing.
TopScenario ==
    /\ pc = "listed" /\ command = "top" /\ roots = <<PathS>> /\ limit = 2
    /\ {p \in present : IsChild(p, PathS)} = {PathSA, PathSB, PathSC}
    /\ fsize[PathSA] = 500
    /\ fsize[PathSB] = 10 * 1024 * 1024
    /\ fsize[PathSC] = 1024

\* C12 as stated: the scenario returns [B, A].
C12_TopScenarioBA == TopScenario => ListedPaths = <<PathSB, PathSA>>

\* C12: the scenario returns [B, C], the 1 KiB of C being more than the
\* 500 bytes of A.
C12_TopScenarioBC == TopScenario => ListedPaths = <<PathSB, PathSC>>

\* The scenario has been run and has listed two entries.
C12_Witness == TopScenario /\ Len(entries) = 2

\* C13: the entries top collects are exactly the readable nodes at most
\* three levels below one of its roots, directories included, and nothing
\* deeper.
C13_DepthBoundedWalk ==
    (pc = "listed" /\ command = "top")
        => PathsOf(collected) =
              {p \in AllPaths :
                 \E i \in 1..Len(roots) :
                    VisibleFrom(roots[i], p) /\ Depth(roots[i], p) <= TopMaxDepth}

\* C14: once the confirmation's read_line or the multi-select has failed,
\* the command has ended with an error and nothing has been removed.
C14_InputErrorIsFatal ==
    (Returned("confirm", ReadError) \/ Returned("multiselect", InteractError))
        => pc = "done" /\ status = "err" /\ NothingRemoved

\* The read of the confirmation line failed after the operator had selected
\* entries.
C14_Witness ==
    /\ Returned("confirm", ReadError) /\ interactive /\ selection # <<>>
    /\ pc = "done"

\* C15: no path is handed to the Remover twice and none that lies beneath a
\* directory handed to it earlier in the batch; a batch that ends without
\* error has attempted every selected entry once and left none on disk.
C15_DeletionOneWay ==
    /\ \A i, j \in 1..Len(attempts) :
          i < j => ~IsPrefix(attempts[i], attempts[j])
    /\ (pc = "done" /\ status = "ok" /\ confirmedBy # "none")
          => /\ Len(attempts) = Len(selection)
             /\ \A i \in 1..Len(selection) :
                   entries[selection[i]].path \notin present

NoDuplicatePath(es) ==
    \A i, j \in 1..Len(es) : i # j => es[i].path # es[j].path

\* C16: no two entries of a scan have the same path, neither before nor
\* after the ranking, so no path is attempted twice.
C16_PathIsUniqueKey ==
    /\ NoDuplicatePath(collected)
    /\ NoDuplicatePath(entries)
    /\ \A i, j \in 1..Len(attempts) : i # j => attempts[i] # attempts[j]

\* C17: for every number of stale days the run does not abort in the
\* computation of the cutoff, and the cutoff it uses is now - days * 86400;
\* with 90 days or more no entry used within the last 90 days is a
\* candidate.
C17_CutoffArithmetic ==
    command \in {"stale", "clean"}
        => /\ status # "panic"
           /\ pc = "listed"
                 => /\ cutoff = Now - days * SecsPerDay
                    /\ days >= DefaultStaleDays
                          => \A i \in 1..Len(collected) :
                                collected[i].time
                                   <= Now - DefaultStaleDays * SecsPerDay

RECURSIVE SumOver(_)
SumOver(S) ==
    IF S = {} THEN 0
    ELSE LET q == CHOOSE x \in S : TRUE
         IN  fsize[q] + SumOver(S \ {q})

\* The sizes of the readable regular files beneath p, added without bound.
TrueSize(p) == SumOver({q \in FilePaths : VisibleFrom(p, q)})

\* C18: the size of every directory item of stale and clean is the sum of
\* the sizes of the readable files beneath it, files that cannot be read
\* counting 0, or the 64-bit maximum when the sum exceeds it; the
\* aggregation ends the scan with no error.
C18_DirSizeSaturates ==
    (pc = "listed" /\ command \in {"stale", "clean"})
        => /\ status = "running"
           /\ \A i \in 1..Len(collected) :
                 collected[i].path \in DirPaths
                    => collected[i].size = Min(U64Max, TrueSize(collected[i].path))

\* A directory whose files add up to more than the maximum was listed with
\* the maximum as its size.
C18_Witness ==
    /\ pc = "listed" /\ command = "stale"
    /\ \E i \in 1..Len(collected) :
          /\ collected[i].path \in DirPaths
          /\ TrueSize(collected[i].path) > U64Max
          /\ collected[i].size = U64Max

\* C19: a non-interactive run of top issues no prompt and removes nothing,
\* whatever yes and dry_run are; it ends successfully, having printed the
\* ranked entries and nothing else.
C19_TopNonInteractiveReadOnly ==
    (command = "top" /\ ~interactive)
        => /\ prompts = <<>> /\ inputs = <<>>
           /\ NothingRemoved
           /\ pc \in {"main", "scan", "listed", "done"}
           /\ pc = "done" => status = "ok" /\ out = Listing(entries)

\* top --non-interactive --yes without dry_run has ended over a non-empty
\* listing.
C19_Witness ==
    /\ command = "top" /\ ~interactive /\ yes /\ ~dry_run
    /\ pc = "done" /\ entries # <<>>

====
